---- MODULE Spec2Model ----
(***************************************************************************)
(* Integer LSTM kernel of tflite-micro (lstm_eval_general.h): the          *)
(* preparation of the kernel contents, the sequence driver                 *)
(* EvalLstmInteger, the step orchestrator LstmStepInteger with its six     *)
(* sub-steps and four scratch buffers, and the step position               *)
(* LstmStepManager.                                                        *)
(*                                                                         *)
(* Tensors are functions from 0..n-1 to integers.  CellType and            *)
(* ActivationType are int16 (the 16-bit activation configuration of the    *)
(* tests).  The numeric primitives the kernel calls (FullyConnectedGeneral,*)
(* MulElementwise, CwiseAdd, CwiseClipping, Logistic, Tanh) and the bodies *)
(* of LstmStepManager's methods are not part of the three source files;    *)
(* they are modelled from the specification: saturating fixed-point        *)
(* arithmetic with a (multiplier, shift) pair, the multiplier's            *)
(* significand being MulBits wide, and piecewise-linear saturating         *)
(* sigmoid and tanh.                                                       *)
(***************************************************************************)
EXTENDS Integers, Sequences, FiniteSets, TLC

VARIABLES
    pc,              \* position of the program
    op_data,         \* OpDataLSTM: sizes, gate and inter-gate parameters, cell state info
    kernel_content,  \* LSTMKernelContents: tensors and the four scratch buffers
    step_info,       \* LstmStepManager
    t,               \* loop variable t of EvalLstmInteger
    b,               \* loop variable b of EvalLstmInteger
    status,          \* what EvalLstmInteger returned: "None" until it returns
    substeps,        \* sub-steps performed by the current LstmStepInteger invocation
    steps_invoked,   \* number of LstmStepInteger invocations so far
    hidden_updates,  \* number of UpdateLstmHiddenInteger calls so far
    hidden_after,    \* <<batch, time>> -> hidden state of that batch right after that step
    output_overrun,  \* elements the copies wrote past the end of the output tensor
    initial_content  \* the tensors and scratch buffers as the run found them

vars == <<pc, op_data, kernel_content, step_info, t, b, status, substeps,
          steps_invoked, hidden_updates, hidden_after, output_overrun,
          initial_content>>

----------------------------------------------------------------------------
(* Bounds of the model *)

MaxBatch == 2
MaxTime == 2

(* Program constants *)

\* the 2x3x2X2 model of the test: input and state dimension
input_dimension == 2
state_dimension == 2
\* std::numeric_limits<CellType>: int16
CellTypeMin == -32768
CellTypeMax == 32767
\* width of a multiplier's significand (32 in the kernels, narrowed so that
\* products stay within TLC's 32-bit integers)
MulBits == 15

kTfLiteActSigmoid == "kTfLiteActSigmoid"
kTfLiteActTanh == "kTfLiteActTanh"
kTfLiteActRelu == "kTfLiteActRelu"

Pow2(n) == 2 ^ n

Min(x, y) == IF x < y THEN x ELSE y
Max(x, y) == IF x > y THEN x ELSE y

Clamp(x, lo, hi) == Min(hi, Max(lo, x))

\* x >> n on a signed integer: arithmetic shift
ShiftRight(x, n) == x \div Pow2(n)

----------------------------------------------------------------------------
(* Numeric primitives *)

\* round(x * multiplier * 2^shift / 2^MulBits) for shift <= 0, rounding half
\* up; computed on the two 15-bit halves of x so that no intermediate exceeds
\* 31 bits
MultiplyByQuantizedMultiplier(x, multiplier, shift) ==
    LET n == MulBits - shift
        xh == x \div Pow2(15)
        xl == x - xh * Pow2(15)
    IN  IF n >= 16
        THEN ((xh * multiplier + (xl * multiplier) \div Pow2(15)) \div Pow2(n - 16) + 1) \div 2
        ELSE xh * multiplier + (xl * multiplier + Pow2(14)) \div Pow2(15)

\* saturating sigmoid on Q3.12, result in Q0.15
Logistic(x) == Clamp(16384 + 2 * x, 0, CellTypeMax)

\* saturating tanh on Q3.12 scaled by 2^input_left_shift, result in Q0.15
Tanh(input_left_shift, x) ==
    Clamp(8 * Clamp(x * Pow2(input_left_shift), CellTypeMin, CellTypeMax),
          CellTypeMin, CellTypeMax)

\* one element of tensor_utils::CwiseAdd: the sum saturates to int16
CwiseAddElement(x, y) == Clamp(x + y, CellTypeMin, CellTypeMax)

\* one element of tensor_utils::CwiseClipping
CwiseClippingElement(x, clip) == Max(Min(clip, x), 0 - clip)

\* one element of MulElementwise / MulElementwiseGeneral
MulElement(params, x, y) ==
    Clamp(params.output_offset +
            MultiplyByQuantizedMultiplier(
                (params.input1_offset + x) * (params.input2_offset + y),
                params.output_multiplier, params.output_shift),
          params.quantized_activation_min, params.quantized_activation_max)

----------------------------------------------------------------------------
(* Step position: LstmStepManager *)

\* the LstmStepManager(size_info) constructor: every member starts at 0
NewLstmStepManager ==
    [current_time |-> 0, current_batch |-> 0, input_offset |-> 0,
     output_offset |-> 0, hidden_state_offset |-> 0, cell_state_offset |-> 0]

\* batch count of one step invocation: all batches in time-major order, one
\* batch element otherwise
StepBatch(size_info) ==
    IF size_info.time_major THEN size_info.batch_size ELSE 1

InputShape(size_info) ==
    [batch |-> StepBatch(size_info), depth |-> size_info.input_dimension]

StateShape(size_info) ==
    [batch |-> StepBatch(size_info), depth |-> size_info.state_dimension]

FlatSize(shape) == shape.batch * shape.depth

UpdateTime(si, size_info) ==
    [si EXCEPT !.current_time = @ + 1,
               !.input_offset = @ + FlatSize(InputShape(size_info)),
               !.output_offset = @ + FlatSize(StateShape(size_info))]

UpdateBatch(si, size_info) ==
    IF size_info.time_major
    THEN [si EXCEPT !.current_batch = @ + 1]
    ELSE [si EXCEPT !.current_batch = @ + 1,
                    !.hidden_state_offset = @ + size_info.state_dimension,
                    !.cell_state_offset = @ + size_info.state_dimension]

\* a reset of the time that rewinds the input as well
ResetTimeRewindingInput(si) == [si EXCEPT !.current_time = 0, !.input_offset = 0]

ResetTime(si) == [si EXCEPT !.current_time = 0]

----------------------------------------------------------------------------
(* Gate computation *)

RECURSIVE DotProduct(_, _, _, _, _, _, _)
\* sum over d < depth of (input[in_at + d] + input_offset) * (weight[w_at + d] + weights_offset)
DotProduct(input, in_at, weight, w_at, depth, input_offset, weights_offset) ==
    IF depth = 0
    THEN 0
    ELSE (input[in_at + depth - 1] + input_offset)
            * (weight[w_at + depth - 1] + weights_offset)
         + DotProduct(input, in_at, weight, w_at, depth - 1,
                      input_offset, weights_offset)

\* the value FullyConnectedGeneral stores at output[i]; a nullptr bias is the
\* empty tensor
FullyConnectedElement(params, input_shape, input, input_at, weight, bias, output_shape, i) ==
    LET row == i \div output_shape.depth
        out_c == i % output_shape.depth
        acc == DotProduct(input, input_at + row * input_shape.depth,
                          weight, out_c * input_shape.depth, input_shape.depth,
                          params.input_offset, params.weights_offset)
               + (IF DOMAIN bias = {} THEN 0 ELSE bias[out_c])
    IN  Clamp(params.output_offset +
                MultiplyByQuantizedMultiplier(acc, params.output_multiplier,
                                              params.output_shift),
              params.quantized_activation_min, params.quantized_activation_max)

\* FullyConnectedGeneral writing the first FlatSize(output_shape) elements of
\* the scratch buffer `out`
FullyConnectedGeneral(params, input_shape, input, input_at, weight, bias, output_shape, buffer, out) ==
    [buffer EXCEPT ![out] =
        [i \in DOMAIN buffer[out] |->
            IF i < FlatSize(output_shape)
            THEN FullyConnectedElement(params, input_shape, input, input_at,
                                       weight, bias, output_shape, i)
            ELSE buffer[out][i]]]

\* an addition that takes its second operand from scratch buffer 2, which
\* the gate has not written
CwiseAddBuffersReadingStaleBuffer(buffer, x, y, n, out) ==
    [buffer EXCEPT ![out] =
        [i \in DOMAIN buffer[out] |->
            IF i < n THEN CwiseAddElement(buffer[x][i], buffer[2][i])
            ELSE buffer[out][i]]]

\* tensor_utils::CwiseAdd(x, y, n_batch, n_state, out) on scratch buffers
CwiseAddBuffers(buffer, x, y, n, out) ==
    [buffer EXCEPT ![out] =
        [i \in DOMAIN buffer[out] |->
            IF i < n THEN CwiseAddElement(buffer[x][i], buffer[y][i])
            ELSE buffer[out][i]]]

\* the activation applied in place to the gate output
ApplyActivation(buffer, activation, n, out) ==
    [buffer EXCEPT ![out] =
        [i \in DOMAIN buffer[out] |->
            IF i < n
            THEN IF activation = kTfLiteActSigmoid
                 THEN Logistic(buffer[out][i])
                 ELSE Tanh(0, buffer[out][i])
            ELSE buffer[out][i]]]

\* TFLITE_ASSERT_FALSE: the program aborts
TFLITE_ASSERT_FALSE == "Aborted"

\* a switch whose default branch lets relu through
TakesDefaultBranchExceptRelu(activation) ==
    activation \notin {kTfLiteActSigmoid, kTfLiteActTanh, kTfLiteActRelu}

\* whether the switch on the activation takes its default branch
TakesDefaultBranch(activation) ==
    activation \notin {kTfLiteActSigmoid, kTfLiteActTanh}

\* CalculateLstmGateInteger: the scratch buffers after the call, and whether
\* the default branch of the switch (TFLITE_ASSERT_FALSE) was taken
CalculateLstmGateInteger(si, size_info, gate_params, input, input_weight, input_bias, recurrent, recurrent_weight, recurrent_bias, gate_output, fc_output_buffer, activation, buffer) ==
    LET gate_output_shape == StateShape(size_info)
        input_fc ==
            FullyConnectedGeneral(gate_params.input_fc_params,
                                  InputShape(size_info), input, si.input_offset,
                                  input_weight, input_bias, gate_output_shape,
                                  buffer, gate_output)
        recurrent_fc ==
            FullyConnectedGeneral(gate_params.recurrent_fc_params,
                                  StateShape(size_info), recurrent,
                                  si.hidden_state_offset, recurrent_weight,
                                  recurrent_bias, gate_output_shape,
                                  input_fc, fc_output_buffer)
        added == CwiseAddBuffers(recurrent_fc, gate_output, fc_output_buffer,
                                 FlatSize(gate_output_shape), gate_output)
    IN  IF TakesDefaultBranch(activation)
        THEN [buffer |-> added, assert_false |-> TRUE]
        ELSE [buffer |-> ApplyActivation(added, activation,
                                         FlatSize(gate_output_shape), gate_output),
              assert_false |-> FALSE]

----------------------------------------------------------------------------
(* Cell state and hidden state updates *)

RECURSIVE MulElementwiseBuffers(_, _, _, _, _, _, _)
\* MulElementwise(n, params, in1, in2, out) on scratch buffers: the loop
\* reads in1[i] and in2[i] and then writes out[i], for i = from, ..., n-1
MulElementwiseBuffers(buffer, params, in1, in2, out, from, n) ==
    IF from >= n
    THEN buffer
    ELSE MulElementwiseBuffers(
            [buffer EXCEPT ![out][from] =
                MulElement(params, buffer[in1][from], buffer[in2][from])],
            params, in1, in2, out, from + 1, n)

\* a guard that lets every clip through
ClipsCellStateAlways(clip) == clip >= 0

\* a guard that lets no clip through
ClipsCellStateNever(clip) == clip > CellTypeMax

\* if (clip > 0): whether the cell state is clipped
ClipsCellState(clip) == clip > 0

\* a cell-state update whose addition wraps around instead of saturating
UpdateLstmCellIntegerWrapping(si, size_info, cell_state, forget_gate_output, input_gate_output, cell_gate_output, forget_cell_mul_params, input_mul_params, scratch, clip, buffer) ==
    LET n == FlatSize(StateShape(size_info))
        at == si.cell_state_offset
        slice == at .. (at + n - 1)
        forgotten ==
            [i \in DOMAIN cell_state |->
                IF i \in slice
                THEN MulElement(forget_cell_mul_params,
                                buffer[forget_gate_output][i - at], cell_state[i])
                ELSE cell_state[i]]
        multiplied ==
            MulElementwiseBuffers(buffer, input_mul_params, input_gate_output,
                                  cell_gate_output, scratch, 0, n)
        added ==
            [i \in DOMAIN cell_state |->
                IF i \in slice
                THEN ((forgotten[i] + multiplied[scratch][i - at] - CellTypeMin)
                         % (CellTypeMax - CellTypeMin + 1)) + CellTypeMin
                ELSE forgotten[i]]
        clipped ==
            [i \in DOMAIN cell_state |->
                IF i \in slice THEN CwiseClippingElement(added[i], clip)
                ELSE added[i]]
    IN  [cell_state |-> IF ClipsCellState(clip) THEN clipped ELSE added,
         buffer |-> multiplied]

\* UpdateLstmCellInteger: the cell state tensor and the scratch buffers
\* after the call
UpdateLstmCellInteger(si, size_info, cell_state, forget_gate_output, input_gate_output, cell_gate_output, forget_cell_mul_params, input_mul_params, scratch, clip, buffer) ==
    LET n == FlatSize(StateShape(size_info))
        at == si.cell_state_offset
        slice == at .. (at + n - 1)
        \* Forget Gate x Cell State, in place in the cell state
        forgotten ==
            [i \in DOMAIN cell_state |->
                IF i \in slice
                THEN MulElement(forget_cell_mul_params,
                                buffer[forget_gate_output][i - at], cell_state[i])
                ELSE cell_state[i]]
        \* Input Gate x Cell Gate
        multiplied ==
            MulElementwiseBuffers(buffer, input_mul_params, input_gate_output,
                                  cell_gate_output, scratch, 0, n)
        \* Update the cell state
        added ==
            [i \in DOMAIN cell_state |->
                IF i \in slice
                THEN CwiseAddElement(forgotten[i], multiplied[scratch][i - at])
                ELSE forgotten[i]]
        clipped ==
            [i \in DOMAIN cell_state |->
                IF i \in slice THEN CwiseClippingElement(added[i], clip)
                ELSE added[i]]
    IN  [cell_state |-> IF ClipsCellState(clip) THEN clipped ELSE added,
         buffer |-> multiplied]

\* a tanh shift that forgets the three integer bits of the tanh input
TanhInputLeftShiftWithoutIntegerBits(cell_state_scale_power) ==
    15 + cell_state_scale_power

\* int32_t tanh_input_left_shift = (15 + cell_state_scale_power) - 3
TanhInputLeftShift(cell_state_scale_power) ==
    (15 + cell_state_scale_power) - 3

\* UpdateLstmHiddenInteger: the cell state tensor, the hidden state tensor
\* and the scratch buffers after the call
UpdateLstmHiddenInteger(si, size_info, cell_state, hidden_state, output_gate_output, mul_params, cell_state_scale_power, scratch, buffer) ==
    LET n == FlatSize(StateShape(size_info))
        at == si.cell_state_offset
        hat == si.hidden_state_offset
        tanh_input_left_shift == TanhInputLeftShift(cell_state_scale_power)
        \* handling negative shift value
        shifted ==
            IF tanh_input_left_shift < 0
            THEN [i \in DOMAIN cell_state |->
                    IF i \in at .. (at + n - 1)
                    THEN ShiftRight(cell_state[i], 0 - tanh_input_left_shift)
                    ELSE cell_state[i]]
            ELSE cell_state
        left_shift == IF tanh_input_left_shift < 0 THEN 0 ELSE tanh_input_left_shift
        \* Tanh(cell_state)
        activated ==
            [buffer EXCEPT ![scratch] =
                [i \in DOMAIN buffer[scratch] |->
                    IF i < n THEN Tanh(left_shift, shifted[at + i])
                    ELSE buffer[scratch][i]]]
        \* Update the hidden state
        hidden ==
            [i \in DOMAIN hidden_state |->
                IF i \in hat .. (hat + n - 1)
                THEN MulElement(mul_params, activated[scratch][i - hat],
                                activated[output_gate_output][i - hat])
                ELSE hidden_state[i]]
    IN  [cell_state |-> shifted, hidden_state |-> hidden, buffer |-> activated]

----------------------------------------------------------------------------
(* Preparation: quantization parameters *)

\* a tensor holding the elements of a sequence
Tensor(seq) == [i \in 0 .. (Len(seq) - 1) |-> seq[i + 1]]

\* a tensor of n elements filled cyclically from a sequence
Fill(seq, n) == [i \in 0 .. (n - 1) |-> seq[(i % Len(seq)) + 1]]

nullptr == Tensor(<<>>)

RECURSIVE Normalize(_, _, _)
\* p / q = (p' / q) * 2^shift with p' / q in [1/2, 1), for 0 < p / q < 1
Normalize(p, q, shift) ==
    IF 2 * p < q THEN Normalize(2 * p, q, shift - 1)
    ELSE [p |-> p, shift |-> shift]

\* QuantizeMultiplier on the scale p / q < 1: the significand rounded to
\* MulBits bits and the binary exponent
QuantizeMultiplier(p, q) ==
    LET nm == Normalize(p, q, 0)
        q_fixed == IF q % Pow2(MulBits) = 0
                   THEN (2 * nm.p + q \div Pow2(MulBits)) \div (2 * (q \div Pow2(MulBits)))
                   ELSE (2 * nm.p * Pow2(MulBits) + q) \div (2 * q)
    IN  IF q_fixed = Pow2(MulBits)
        THEN [multiplier |-> q_fixed \div 2, shift |-> nm.shift + 1]
        ELSE [multiplier |-> q_fixed, shift |-> nm.shift]

\* fully connected parameters that take the input for symmetrically
\* quantized
CreateFCParamsIgnoringInputZeroPoint(input_quant_params, weight_quant_params, nonlinear_activation_input_scale) ==
    LET qm == QuantizeMultiplier(
                input_quant_params.scale.num * weight_quant_params.scale.num
                    * nonlinear_activation_input_scale.den,
                input_quant_params.scale.den * weight_quant_params.scale.den
                    * nonlinear_activation_input_scale.num)
    IN  [output_multiplier |-> qm.multiplier,
         output_shift |-> qm.shift,
         input_offset |-> 0,
         weights_offset |-> 0,
         output_offset |-> 0,
         quantized_activation_min |-> CellTypeMin,
         quantized_activation_max |-> CellTypeMax]

\* CreateFCParams: scales are fractions [num, den]
CreateFCParams(input_quant_params, weight_quant_params, nonlinear_activation_input_scale) ==
    LET qm == QuantizeMultiplier(
                input_quant_params.scale.num * weight_quant_params.scale.num
                    * nonlinear_activation_input_scale.den,
                input_quant_params.scale.den * weight_quant_params.scale.den
                    * nonlinear_activation_input_scale.num)
    IN  [output_multiplier |-> qm.multiplier,
         output_shift |-> qm.shift,
         input_offset |-> 0 - input_quant_params.zero_point,
         weights_offset |-> 0,
         output_offset |-> 0,
         quantized_activation_min |-> CellTypeMin,
         quantized_activation_max |-> CellTypeMax]

CreateGateParams(input_quant_params, hidden_state_quant_params, gate_quantization_settings, nonlinear_activation_input_scale) ==
    [input_fc_params |->
        CreateFCParams(input_quant_params,
                       gate_quantization_settings.activation_weight,
                       nonlinear_activation_input_scale),
     recurrent_fc_params |->
        CreateFCParams(hidden_state_quant_params,
                       gate_quantization_settings.recurrent_weight,
                       nonlinear_activation_input_scale)]

CreateInterGateMulParams(input1_scale, input2_scale, output_scale, output_zp) ==
    LET qm == QuantizeMultiplier(
                input1_scale.num * input2_scale.num * output_scale.den,
                input1_scale.den * input2_scale.den * output_scale.num)
    IN  [quantized_activation_min |-> CellTypeMin,
         quantized_activation_max |-> CellTypeMax,
         input1_offset |-> 0,
         input2_offset |-> 0,
         output_offset |-> output_zp,
         output_multiplier |-> qm.multiplier,
         output_shift |-> qm.shift]

RECURSIVE Log2Rounded(_, _)
\* the least k >= from with den < 2^(k + 1/2): the rounded base-2 logarithm
Log2Rounded(den, from) ==
    IF (den * den) \div 2 < Pow2(2 * from) THEN from
    ELSE Log2Rounded(den, from + 1)

\* CheckedLog2 on the scale 1 / den: the rounded logarithm goes to the
\* out-parameter, and the returned flag tells whether the scale is a power
\* of two
CheckedLog2(scale) ==
    LET k == Log2Rounded(scale.den, 0)
    IN  [log2_result |-> 0 - k, exact |-> scale.den = Pow2(k)]

\* the quantized cell clip of CreateLSTMKernelContent: cell_clip is a
\* fraction, the quotient is clamped to int16 and truncated
QuantizedCellClip(cell_clip, cell_state_scale) ==
    Clamp((cell_clip.num * cell_state_scale.den)
              \div (cell_clip.den * cell_state_scale.num),
          CellTypeMin, CellTypeMax)

----------------------------------------------------------------------------
(* Model contents: quantization settings, weights and the data a run starts from *)

\* scales of the tensors; the cell state scale is chosen per run
QuantizationSettings(cell_state_scale) ==
    [input_quantization_parameters |->
        [scale |-> [num |-> 1, den |-> 32768], zero_point |-> 0],
     hidden_quantization_parameters |->
        [scale |-> [num |-> 1, den |-> 32768], zero_point |-> 0],
     cell_quantization_parameters |->
        [scale |-> cell_state_scale, zero_point |-> 0],
     gate_quantization_parameters |->
        [activation_weight |-> [scale |-> [num |-> 1, den |-> 32], zero_point |-> 0],
         recurrent_weight |-> [scale |-> [num |-> 1, den |-> 32], zero_point |-> 0]],
     nonlinear_activation_input_scale |-> [num |-> 1, den |-> 4096],
     nonlinear_activation_output_scale |-> [num |-> 1, den |-> 32768]]

\* int8 weights [state_dimension x depth] and accumulator-scale biases of the
\* four gates
GateData ==
    [forget |-> [input_weight |-> Tensor(<<64, -32, 16, 96>>),
                 recurrent_weight |-> Tensor(<<48, -64, 24, 80>>),
                 bias |-> Tensor(<<262144, -131072>>)],
     input  |-> [input_weight |-> Tensor(<<-80, 40, 100, -20>>),
                 recurrent_weight |-> Tensor(<<32, 56, -72, 12>>),
                 bias |-> Tensor(<<0, 524288>>)],
     cell   |-> [input_weight |-> Tensor(<<120, -110, 30, 70>>),
                 recurrent_weight |-> Tensor(<<-90, 60, 44, -28>>),
                 bias |-> Tensor(<<-65536, 65536>>)],
     output |-> [input_weight |-> Tensor(<<20, 90, -60, 50>>),
                 recurrent_weight |-> Tensor(<<76, -36, 18, 102>>),
                 bias |-> Tensor(<<131072, 0>>)]]

\* what the tensors and scratch buffers may hold when a run starts
InputPatterns == {<<12000, -7000, 300, 32767, -20000>>, <<-150, 4000, -32768, 900, 25>>}
HiddenPatterns == {<<0>>, <<9000, -4000, 31000, -15000, 700>>}
CellPatterns == {<<0>>, <<32767, -30000, 1500, -200, 20000>>, <<-32768, 8000, 60, 32000, -9>>}
ScratchPatterns == {<<0>>, <<21845, -13107>>}

\* cell state scales 1 / den: 2^-11, 2^-15 and one that is no power of two
CellStateScales == {[num |-> 1, den |-> 2048], [num |-> 1, den |-> 32768], [num |-> 1, den |-> 3000]}

\* builtin_data.cell_clip
CellClips == {[num |-> 0, den |-> 1], [num |-> 1, den |-> 16], [num |-> 1, den |-> 1]}

\* builtin_data.activation
Activations == {kTfLiteActSigmoid, kTfLiteActTanh, kTfLiteActRelu}

\* CreateLSTMOpData, with the size information and the builtin data of the node
CreateLSTMOpData(size_info, builtin_data, quantization_settings) ==
    [size_info |-> size_info,
     builtin_data |-> builtin_data,
     quantization_settings |-> quantization_settings,
     forget_gate_parameters |->
        CreateGateParams(quantization_settings.input_quantization_parameters,
                         quantization_settings.hidden_quantization_parameters,
                         quantization_settings.gate_quantization_parameters,
                         quantization_settings.nonlinear_activation_input_scale),
     input_gate_parameters |->
        CreateGateParams(quantization_settings.input_quantization_parameters,
                         quantization_settings.hidden_quantization_parameters,
                         quantization_settings.gate_quantization_parameters,
                         quantization_settings.nonlinear_activation_input_scale),
     cell_gate_parameters |->
        CreateGateParams(quantization_settings.input_quantization_parameters,
                         quantization_settings.hidden_quantization_parameters,
                         quantization_settings.gate_quantization_parameters,
                         quantization_settings.nonlinear_activation_input_scale),
     output_gate_parameters |->
        CreateGateParams(quantization_settings.input_quantization_parameters,
                         quantization_settings.hidden_quantization_parameters,
                         quantization_settings.gate_quantization_parameters,
                         quantization_settings.nonlinear_activation_input_scale),
     inter_gate_parameters |->
        [forget_cell_mul_params |->
            CreateInterGateMulParams(
                quantization_settings.nonlinear_activation_output_scale,
                quantization_settings.cell_quantization_parameters.scale,
                quantization_settings.cell_quantization_parameters.scale, 0),
         input_mul_params |->
            CreateInterGateMulParams(
                quantization_settings.nonlinear_activation_output_scale,
                quantization_settings.nonlinear_activation_output_scale,
                quantization_settings.cell_quantization_parameters.scale, 0),
         output_mul_params |->
            CreateInterGateMulParams(
                quantization_settings.nonlinear_activation_output_scale,
                quantization_settings.nonlinear_activation_output_scale,
                quantization_settings.hidden_quantization_parameters.scale,
                quantization_settings.hidden_quantization_parameters.zero_point)],
     \* set by CreateLSTMKernelContent
     cell_gate_nonlinear_type |-> kTfLiteActSigmoid,
     cell_state_info |-> [quantized_cell_clip |-> 0, cell_state_scale_power |-> 0]]

\* the tensors of the node and the scratch buffers, sized batch_size * state_dimension
NewKernelContents(size_info, input_pattern, hidden_pattern, cell_pattern, scratch_pattern) ==
    LET n_state == size_info.batch_size * size_info.state_dimension
    IN  [input |-> Fill(input_pattern,
                        size_info.batch_size * size_info.time_steps
                            * size_info.input_dimension),
         hidden_state |-> Fill(hidden_pattern, n_state),
         cell_state |-> Fill(cell_pattern, n_state),
         output |-> Fill(<<0>>, n_state * size_info.time_steps),
         buffer |-> [k \in 0 .. 3 |-> Fill(scratch_pattern, n_state)]]

----------------------------------------------------------------------------
(* The program: a machine is a record of the program's variables, and each  *)
(* operation maps the machine before it to the machine after it.            *)

\* scratch buffers as LstmStepInteger assigns them
gate_internal_buffer == 3
forget_gate_output == 0
input_gate_output == 1
\* the cell-candidate gate written over the input gate
cell_gate_output_over_input_gate == input_gate_output

cell_gate_output == 2
updated_input_buffer == 1
output_gate_output == 1
tanh_activated_cell_buffer == 0

\* the output gate computed before the cell state is updated
LstmStepSequenceOutputGateEarly ==
    <<"ForgetGate", "InputGate", "CellGate", "OutputGate", "UpdateCell", "UpdateHidden">>

\* the sub-steps of LstmStepInteger, in the order of its statements
LstmStepSequence ==
    <<"ForgetGate", "InputGate", "CellGate", "UpdateCell", "OutputGate", "UpdateHidden">>

\* where the program is after sub-step p: at the following sub-step, or back
\* in the driver at the copy of the hidden state
AfterSubStep(p) ==
    LET k == CHOOSE i \in 1 .. Len(LstmStepSequence) : LstmStepSequence[i] = p
    IN  IF k < Len(LstmStepSequence) THEN LstmStepSequence[k + 1]
        ELSE "RecordOutput"

\* the machine before EvalLstmInteger's kernel contents are prepared
NewMachine(size_info, builtin_data, cell_state_scale, input_pattern, hidden_pattern, cell_pattern, scratch_pattern) ==
    [pc |-> "Prepare",
     op_data |-> CreateLSTMOpData(size_info, builtin_data,
                                  QuantizationSettings(cell_state_scale)),
     kernel_content |-> NewKernelContents(size_info, input_pattern,
                                          hidden_pattern, cell_pattern,
                                          scratch_pattern),
     step_info |-> NewLstmStepManager,
     t |-> 0,
     b |-> 0,
     status |-> "None",
     substeps |-> <<>>,
     steps_invoked |-> 0,
     hidden_updates |-> 0,
     hidden_after |-> [x \in {} |-> <<>>],
     output_overrun |-> 0,
     initial_content |-> NewKernelContents(size_info, input_pattern,
                                           hidden_pattern, cell_pattern,
                                           scratch_pattern)]

\* a preparation whose second derivation of the forget gate's parameters
\* takes the cell state's scale for the gate's nonlinear input scale
CreateLSTMKernelContentDerivingAgain(m) ==
    LET cell_state_scale == m.op_data.quantization_settings.cell_quantization_parameters.scale
        buffer == CheckedLog2(cell_state_scale).log2_result
    IN  [m EXCEPT
            !.op_data.forget_gate_parameters =
                CreateGateParams(
                    m.op_data.quantization_settings.input_quantization_parameters,
                    m.op_data.quantization_settings.hidden_quantization_parameters,
                    m.op_data.quantization_settings.gate_quantization_parameters,
                    cell_state_scale),
            !.op_data.cell_state_info.cell_state_scale_power = buffer,
            !.op_data.cell_gate_nonlinear_type = m.op_data.builtin_data.activation,
            !.op_data.cell_state_info.quantized_cell_clip =
                QuantizedCellClip(m.op_data.builtin_data.cell_clip, cell_state_scale),
            !.step_info = NewLstmStepManager,
            !.t = 0,
            !.b = 0,
            !.pc = "Loop"]

\* CreateLSTMKernelContent: the cell state specifics, then EvalLstmInteger
\* starts with a new step position
CreateLSTMKernelContent(m) ==
    LET cell_state_scale == m.op_data.quantization_settings.cell_quantization_parameters.scale
        buffer == CheckedLog2(cell_state_scale).log2_result
    IN  [m EXCEPT
            !.op_data.cell_state_info.cell_state_scale_power = buffer,
            !.op_data.cell_gate_nonlinear_type = m.op_data.builtin_data.activation,
            !.op_data.cell_state_info.quantized_cell_clip =
                QuantizedCellClip(m.op_data.builtin_data.cell_clip, cell_state_scale),
            !.step_info = NewLstmStepManager,
            !.t = 0,
            !.b = 0,
            !.pc = "Loop"]

\* a batch-major inner loop that stops one time step early
LoopInvokesStepButLast(m) ==
    IF m.op_data.size_info.time_major
    THEN m.t < m.op_data.size_info.time_steps
    ELSE m.b < m.op_data.size_info.batch_size /\ m.t < m.op_data.size_info.time_steps - 1

\* whether the loops of EvalLstmInteger invoke another step
LoopInvokesStep(m) ==
    IF m.op_data.size_info.time_major
    THEN m.t < m.op_data.size_info.time_steps
    ELSE m.b < m.op_data.size_info.batch_size /\ m.t < m.op_data.size_info.time_steps

\* whether the inner loop of the batch-major order has ended
LoopEndsBatch(m) ==
    /\ ~m.op_data.size_info.time_major
    /\ m.b < m.op_data.size_info.batch_size
    /\ m.t >= m.op_data.size_info.time_steps

\* a batch-major order that returns when the first inner loop has ended
LoopEndsAfterFirstBatch(m) ==
    m.t >= m.op_data.size_info.time_steps

\* whether the loops have ended
LoopEnds(m) ==
    IF m.op_data.size_info.time_major
    THEN m.t >= m.op_data.size_info.time_steps
    ELSE m.b >= m.op_data.size_info.batch_size

\* the call of LstmStepInteger
EnterLstmStep(m) ==
    [m EXCEPT !.pc = LstmStepSequence[1],
              !.substeps = <<>>,
              !.steps_invoked = @ + 1]

\* one of the four CalculateLstmGateInteger calls of LstmStepInteger
GateSubStep(m, name, gate_params, gate_data, gate_output, activation) ==
    LET r == CalculateLstmGateInteger(
                m.step_info, m.op_data.size_info, gate_params,
                m.kernel_content.input, gate_data.input_weight, gate_data.bias,
                m.kernel_content.hidden_state, gate_data.recurrent_weight,
                nullptr, gate_output, gate_internal_buffer, activation,
                m.kernel_content.buffer)
    IN  [m EXCEPT !.kernel_content.buffer = r.buffer,
                  !.substeps = Append(@, name),
                  !.pc = IF r.assert_false THEN TFLITE_ASSERT_FALSE
                         ELSE AfterSubStep(name)]

ForgetGateSubStep(m) ==
    GateSubStep(m, "ForgetGate", m.op_data.forget_gate_parameters,
                GateData.forget, forget_gate_output, kTfLiteActSigmoid)

InputGateSubStep(m) ==
    GateSubStep(m, "InputGate", m.op_data.input_gate_parameters,
                GateData.input, input_gate_output, kTfLiteActSigmoid)

\* a cell gate that ignores the configured activation
CellGateSubStepWithSigmoid(m) ==
    GateSubStep(m, "CellGate", m.op_data.cell_gate_parameters,
                GateData.cell, cell_gate_output, kTfLiteActSigmoid)

CellGateSubStep(m) ==
    GateSubStep(m, "CellGate", m.op_data.cell_gate_parameters,
                GateData.cell, cell_gate_output,
                m.op_data.cell_gate_nonlinear_type)

\* an output gate that also stores its result in the hidden state
OutputGateSubStepWritingHidden(m) ==
    LET r == GateSubStep(m, "OutputGate", m.op_data.output_gate_parameters,
                         GateData.output, output_gate_output, kTfLiteActSigmoid)
        hat == m.step_info.hidden_state_offset
        n == FlatSize(StateShape(m.op_data.size_info))
    IN  [r EXCEPT !.kernel_content.hidden_state =
            [i \in DOMAIN @ |->
                IF i \in hat .. (hat + n - 1)
                THEN r.kernel_content.buffer[output_gate_output][i - hat]
                ELSE @[i]]]

OutputGateSubStep(m) ==
    GateSubStep(m, "OutputGate", m.op_data.output_gate_parameters,
                GateData.output, output_gate_output, kTfLiteActSigmoid)

\* a cell state update whose two multiplications exchange their parameters
UpdateCellSubStepSwappingParams(m) ==
    LET r == UpdateLstmCellInteger(
                m.step_info, m.op_data.size_info, m.kernel_content.cell_state,
                forget_gate_output, input_gate_output, cell_gate_output,
                m.op_data.inter_gate_parameters.input_mul_params,
                m.op_data.inter_gate_parameters.forget_cell_mul_params,
                updated_input_buffer,
                m.op_data.cell_state_info.quantized_cell_clip,
                m.kernel_content.buffer)
    IN  [m EXCEPT !.kernel_content.cell_state = r.cell_state,
                  !.kernel_content.buffer = r.buffer,
                  !.substeps = Append(@, "UpdateCell"),
                  !.pc = AfterSubStep("UpdateCell")]

\* Step2: update the cell state
UpdateCellSubStep(m) ==
    LET r == UpdateLstmCellInteger(
                m.step_info, m.op_data.size_info, m.kernel_content.cell_state,
                forget_gate_output, input_gate_output, cell_gate_output,
                m.op_data.inter_gate_parameters.forget_cell_mul_params,
                m.op_data.inter_gate_parameters.input_mul_params,
                updated_input_buffer,
                m.op_data.cell_state_info.quantized_cell_clip,
                m.kernel_content.buffer)
    IN  [m EXCEPT !.kernel_content.cell_state = r.cell_state,
                  !.kernel_content.buffer = r.buffer,
                  !.substeps = Append(@, "UpdateCell"),
                  !.pc = AfterSubStep("UpdateCell")]

\* the hidden state of batch element k in a hidden state tensor
HiddenOf(hidden_state, size_info, k) ==
    [d \in 1 .. size_info.state_dimension |->
        hidden_state[k * size_info.state_dimension + d - 1]]

\* the batch elements a step updates
StepBatches(m) ==
    IF m.op_data.size_info.time_major
    THEN 0 .. (m.op_data.size_info.batch_size - 1)
    ELSE {m.b}

\* Step3: update the hidden state
UpdateHiddenSubStep(m) ==
    LET r == UpdateLstmHiddenInteger(
                m.step_info, m.op_data.size_info, m.kernel_content.cell_state,
                m.kernel_content.hidden_state, output_gate_output,
                m.op_data.inter_gate_parameters.output_mul_params,
                m.op_data.cell_state_info.cell_state_scale_power,
                tanh_activated_cell_buffer, m.kernel_content.buffer)
        now == [x \in {<<k, m.t>> : k \in StepBatches(m)} |->
                    HiddenOf(r.hidden_state, m.op_data.size_info, x[1])]
    IN  [m EXCEPT !.kernel_content.cell_state = r.cell_state,
                  !.kernel_content.hidden_state = r.hidden_state,
                  !.kernel_content.buffer = r.buffer,
                  !.substeps = Append(@, "UpdateHidden"),
                  !.hidden_updates = @ + 1,
                  !.hidden_after = now @@ @,
                  !.pc = AfterSubStep("UpdateHidden")]

\* std::memcpy(output_ptr + OutputOffset(), hidden state data,
\*             batch_size * state_dimension * sizeof(ActivationType))
RecordOutput(m) ==
    LET n == m.op_data.size_info.batch_size * m.op_data.size_info.state_dimension
        at == m.step_info.output_offset
        output == m.kernel_content.output
        size == m.op_data.size_info.batch_size * m.op_data.size_info.time_steps
                    * m.op_data.size_info.state_dimension
    IN  [m EXCEPT !.kernel_content.output =
                      [i \in DOMAIN output |->
                          IF at <= i /\ i < at + n
                          THEN m.kernel_content.hidden_state[i - at]
                          ELSE output[i]],
                  !.output_overrun = @ + Max(0, at + n - size),
                  !.pc = "UpdateTime"]

\* step_info.UpdateTime() and the t++ of the loop
AdvanceTime(m) ==
    [m EXCEPT !.step_info = UpdateTime(@, m.op_data.size_info),
              !.t = @ + 1,
              !.pc = "Loop"]

\* a move to the next batch element that starts it from zeroed states
PrepareNextBatchResettingStates(m) ==
    [m EXCEPT !.step_info = ResetTime(UpdateBatch(@, m.op_data.size_info)),
              !.kernel_content.cell_state = [i \in DOMAIN @ |-> 0],
              !.kernel_content.hidden_state = [i \in DOMAIN @ |-> 0],
              !.b = @ + 1,
              !.t = 0]

\* step_info.UpdateBatch(); step_info.ResetTime(); and the b++ of the outer
\* loop, whose body starts the inner loop at t = 0
PrepareNextBatch(m) ==
    [m EXCEPT !.step_info = ResetTime(UpdateBatch(@, m.op_data.size_info)),
              !.b = @ + 1,
              !.t = 0]

\* return kTfLiteOk
ReturnOk(m) == [m EXCEPT !.status = "kTfLiteOk", !.pc = "Done"]

\* the machine after the operation its position selects; a machine that
\* has returned or aborted stays as it is
Step(m) ==
    CASE m.pc = "Prepare" -> CreateLSTMKernelContent(m)
      [] m.pc = "Loop" /\ LoopInvokesStep(m) -> EnterLstmStep(m)
      [] m.pc = "Loop" /\ LoopEndsBatch(m) -> PrepareNextBatch(m)
      [] m.pc = "Loop" /\ LoopEnds(m) -> ReturnOk(m)
      [] m.pc = "ForgetGate" -> ForgetGateSubStep(m)
      [] m.pc = "InputGate" -> InputGateSubStep(m)
      [] m.pc = "CellGate" -> CellGateSubStep(m)
      [] m.pc = "UpdateCell" -> UpdateCellSubStep(m)
      [] m.pc = "OutputGate" -> OutputGateSubStep(m)
      [] m.pc = "UpdateHidden" -> UpdateHiddenSubStep(m)
      [] m.pc = "RecordOutput" -> RecordOutput(m)
      [] m.pc = "UpdateTime" -> AdvanceTime(m)
      [] OTHER -> m

RECURSIVE RunToEnd(_)
\* the machine when the program has ended
RunToEnd(m) == IF Step(m) = m THEN m ELSE RunToEnd(Step(m))

\* the machine that starts over from the initial tensors in the given
\* traversal order
Restart(m, time_major) ==
    [m EXCEPT !.pc = "Prepare",
              !.op_data.size_info.time_major = time_major,
              !.kernel_content = m.initial_content,
              !.step_info = NewLstmStepManager,
              !.t = 0,
              !.b = 0,
              !.status = "None",
              !.substeps = <<>>,
              !.steps_invoked = 0,
              !.hidden_updates = 0,
              !.hidden_after = [x \in {} |-> <<>>],
              !.output_overrun = 0]

----------------------------------------------------------------------------
(* State machine *)

Machine ==
    [pc |-> pc, op_data |-> op_data, kernel_content |-> kernel_content,
     step_info |-> step_info, t |-> t, b |-> b, status |-> status,
     substeps |-> substeps, steps_invoked |-> steps_invoked,
     hidden_updates |-> hidden_updates, hidden_after |-> hidden_after,
     output_overrun |-> output_overrun, initial_content |-> initial_content]

Becomes(m) ==
    /\ pc' = m.pc
    /\ op_data' = m.op_data
    /\ kernel_content' = m.kernel_content
    /\ step_info' = m.step_info
    /\ t' = m.t
    /\ b' = m.b
    /\ status' = m.status
    /\ substeps' = m.substeps
    /\ steps_invoked' = m.steps_invoked
    /\ hidden_updates' = m.hidden_updates
    /\ hidden_after' = m.hidden_after
    /\ output_overrun' = m.output_overrun
    /\ initial_content' = m.initial_content

SizeInfos ==
    [time_major : BOOLEAN, batch_size : 1 .. MaxBatch, time_steps : 1 .. MaxTime,
     input_dimension : {input_dimension}, state_dimension : {state_dimension}]

BuiltinDatas == [activation : Activations, cell_clip : CellClips]

\* quantization settings whose input and hidden state have zero points
\* other than 0
AsymmetricQuantizationSettings(cell_state_scale) ==
    [QuantizationSettings(cell_state_scale) EXCEPT
        !.input_quantization_parameters.zero_point = 3,
        !.hidden_quantization_parameters.zero_point = -2]

\* the machine whose parameters are derived from other quantization settings
WithQuantizationSettings(m, quantization_settings) ==
    [m EXCEPT !.op_data = CreateLSTMOpData(m.op_data.size_info,
                                           m.op_data.builtin_data,
                                           quantization_settings)]

\* an input and a hidden state at the limits of their type, which drive the
\* sums of the gates beyond the limits of CellType
ExtremeInput == <<32767, -32768>>
ExtremeHidden == <<-32768, 32767>>

Machines ==
    {NewMachine(si, bd, cs, ip, hp, cp, sp) :
        si \in SizeInfos, bd \in BuiltinDatas, cs \in CellStateScales,
        ip \in InputPatterns, hp \in HiddenPatterns, cp \in CellPatterns,
        sp \in ScratchPatterns}
    \cup
    {WithQuantizationSettings(
            NewMachine(si, bd, cs, ExtremeInput, ExtremeHidden, cp, <<0>>),
            AsymmetricQuantizationSettings(cs)) :
        si \in SizeInfos, bd \in BuiltinDatas, cs \in CellStateScales,
        cp \in CellPatterns \ {<<0>>}}

Init == \E m \in Machines : 
    /\ pc = m.pc
    /\ op_data = m.op_data
    /\ kernel_content = m.kernel_content
    /\ step_info = m.step_info
    /\ t = m.t
    /\ b = m.b
    /\ status = m.status
    /\ substeps = m.substeps
    /\ steps_invoked = m.steps_invoked
    /\ hidden_updates = m.hidden_updates
    /\ hidden_after = m.hidden_after
    /\ output_overrun = m.output_overrun
    /\ initial_content = m.initial_content

Prepare == pc = "Prepare" /\ Becomes(CreateLSTMKernelContent(Machine))

InvokeStep == pc = "Loop" /\ LoopInvokesStep(Machine) /\ Becomes(EnterLstmStep(Machine))

ForgetGate == pc = "ForgetGate" /\ Becomes(ForgetGateSubStep(Machine))

InputGate == pc = "InputGate" /\ Becomes(InputGateSubStep(Machine))

CellGate == pc = "CellGate" /\ Becomes(CellGateSubStep(Machine))

UpdateCell == pc = "UpdateCell" /\ Becomes(UpdateCellSubStep(Machine))

OutputGate == pc = "OutputGate" /\ Becomes(OutputGateSubStep(Machine))

UpdateHidden == pc = "UpdateHidden" /\ Becomes(UpdateHiddenSubStep(Machine))

CopyHidden == pc = "RecordOutput" /\ Becomes(RecordOutput(Machine))

NextTime == pc = "UpdateTime" /\ Becomes(AdvanceTime(Machine))

NextBatch == pc = "Loop" /\ LoopEndsBatch(Machine) /\ Becomes(PrepareNextBatch(Machine))

Return == pc = "Loop" /\ LoopEnds(Machine) /\ Becomes(ReturnOk(Machine))

Next ==
    \/ Prepare
    \/ InvokeStep
    \/ ForgetGate
    \/ InputGate
    \/ CellGate
    \/ UpdateCell
    \/ OutputGate
    \/ UpdateHidden
    \/ CopyHidden
    \/ NextTime
    \/ NextBatch
    \/ Return

Spec == Init /\ [][Next]_vars

\* the program has neither returned nor aborted
Running == pc \notin {"Done", "Aborted"}

\* the program is inside LstmStepInteger, where one of its sub-steps is
\* enabled
InLstmStep == pc \in {LstmStepSequence[i] : i \in 1 .. Len(LstmStepSequence)}

\* a sub-step of LstmStepInteger
LstmStep ==
    ForgetGate \/ InputGate \/ CellGate \/ UpdateCell \/ OutputGate \/ UpdateHidden

\* the program is sequential and runs to its end: no statement is postponed
\* forever. The weak fairness of the sub-steps is written in its expanded
\* form, []<>(~ENABLED <<LstmStep>>_vars) \/ []<><<LstmStep>>_vars, with the
\* enabledness of a sub-step written out as InLstmStep.
FairSpec ==
    /\ Spec
    /\ WF_vars(Prepare)
    /\ WF_vars(InvokeStep)
    /\ WF_vars(CopyHidden)
    /\ WF_vars(NextTime)
    /\ WF_vars(NextBatch)
    /\ WF_vars(Return)
    /\ ([]<>~InLstmStep \/ []<><<LstmStep>>_vars)

TypeOK ==
    /\ pc \in {"Prepare", "Loop", "ForgetGate", "InputGate", "CellGate", "UpdateCell",
               "OutputGate", "UpdateHidden", "RecordOutput", "UpdateTime", "Done", "Aborted"}
    /\ status \in {"None", "kTfLiteOk"}

----------------------------------------------------------------------------
(* Properties *)

Range(seq) == {seq[i] : i \in 1 .. Len(seq)}

IsPrefix(p, seq) ==
    /\ Len(p) <= Len(seq)
    /\ \A i \in 1 .. Len(p) : p[i] = seq[i]

size_info == op_data.size_info

\* elements of the state tensors one step works on
StepSlice(offset) == offset .. (offset + FlatSize(StateShape(size_info)) - 1)

\* positions of the driver, outside LstmStepInteger
DriverPositions == {"RecordOutput", "UpdateTime", "Loop"}

\* positions of the current step at which its cell-state update is done
AfterCellUpdate == {"OutputGate", "UpdateHidden", "RecordOutput", "UpdateTime"}

\* C1: every invocation of LstmStepInteger performs the six sub-steps forget
\* gate, input gate, cell-candidate gate, cell-state update, output gate,
\* hidden-state update, each once and in this order: what an invocation has
\* performed so far is always a prefix of that sequence, the position is at
\* the next one, and an invocation that has returned has performed all six.
C1_SixSubStepsInOrder ==
    LET six == <<"ForgetGate", "InputGate", "CellGate", "UpdateCell",
                 "OutputGate", "UpdateHidden">>
    IN  /\ IsPrefix(substeps, six)
        /\ pc \in Range(six) => pc = six[Len(substeps) + 1]
        /\ (pc \in DriverPositions \cup {"Done"} /\ steps_invoked > 0)
              => substeps = six

C1_Witness ==
    /\ pc = "RecordOutput"
    /\ steps_invoked = 2
    /\ substeps = <<"ForgetGate", "InputGate", "CellGate", "UpdateCell",
                    "OutputGate", "UpdateHidden">>

\* the output of a gate computed on buffers of its own from the current
\* input and hidden state
GateValue(gate_params, gate_data, activation) ==
    CalculateLstmGateInteger(
        step_info, size_info, gate_params, kernel_content.input,
        gate_data.input_weight, gate_data.bias, kernel_content.hidden_state,
        gate_data.recurrent_weight, nullptr, 0, 1, activation,
        [k \in 0 .. 1 |-> Fill(<<0>>, size_info.batch_size * size_info.state_dimension)]
    ).buffer[0]

\* the first elements of a scratch buffer, those a step works on, hold the value
Holds(scratch, value) ==
    \A i \in 0 .. (FlatSize(StateShape(size_info)) - 1) :
        kernel_content.buffer[scratch][i] = value[i]

ForgetGateValue ==
    GateValue(op_data.forget_gate_parameters, GateData.forget, kTfLiteActSigmoid)

InputGateValue ==
    GateValue(op_data.input_gate_parameters, GateData.input, kTfLiteActSigmoid)

CellGateValue ==
    GateValue(op_data.cell_gate_parameters, GateData.cell, op_data.cell_gate_nonlinear_type)

OutputGateValue ==
    GateValue(op_data.output_gate_parameters, GateData.output, kTfLiteActSigmoid)

\* C2: the reuse of the four scratch buffers overwrites no value that is
\* still to be read.  When the cell-state update starts, buffer0, buffer1 and
\* buffer2 hold the forget, input and cell-candidate gate outputs; when it
\* has ended, buffer1 holds the product of the input and cell-candidate
\* gates, element by element, and buffer2 is intact; when the hidden-state
\* update starts, buffer1 holds the output gate, and when it has ended the
\* hidden state is the product of buffer0 (the tanh of the cell state) and
\* buffer1; and the fully-connected scratch, buffer3, is the output of no gate.
C2_ScratchReuseKeepsLiveValues ==
    /\ pc = "UpdateCell" =>
          /\ Holds(0, ForgetGateValue)
          /\ Holds(1, InputGateValue)
          /\ Holds(2, CellGateValue)
    /\ pc = "OutputGate" =>
          /\ Holds(1, [i \in 0 .. (FlatSize(StateShape(size_info)) - 1) |->
                        MulElement(op_data.inter_gate_parameters.input_mul_params,
                                   InputGateValue[i], CellGateValue[i])])
          /\ Holds(2, CellGateValue)
    /\ pc = "UpdateHidden" => Holds(1, OutputGateValue)
    /\ (pc = "RecordOutput" /\ steps_invoked > 0) =>
          \A i \in 0 .. (FlatSize(StateShape(size_info)) - 1) :
              kernel_content.hidden_state[step_info.hidden_state_offset + i] =
                  MulElement(op_data.inter_gate_parameters.output_mul_params,
                             kernel_content.buffer[0][i], kernel_content.buffer[1][i])
    /\ gate_internal_buffer = 3
    /\ 3 \notin {forget_gate_output, input_gate_output, cell_gate_output,
                 output_gate_output}

C2_Witness ==
    /\ pc = "UpdateHidden"
    /\ steps_invoked = 2
    /\ Holds(1, OutputGateValue)
    /\ \E i \in 0 .. (FlatSize(StateShape(size_info)) - 1) :
          /\ kernel_content.buffer[1][i] # initial_content.buffer[1][i]
          /\ kernel_content.buffer[1][i] # kernel_content.buffer[0][i]

\* where the output tensor holds the entry of batch element k at time step j:
\* [time, batch, state] in time-major order, [batch, time, state] otherwise
OutputEntryOffset(k, j) ==
    IF size_info.time_major
    THEN (j * size_info.batch_size + k) * size_info.state_dimension
    ELSE (k * size_info.time_steps + j) * size_info.state_dimension

OutputEntry(k, j) ==
    [d \in 1 .. size_info.state_dimension |->
        kernel_content.output[OutputEntryOffset(k, j) + d - 1]]

\* C3: when the evaluation ends, the output entry of every batch element and
\* time step is the hidden state of that batch element right after that
\* step, in both traversal orders and for every batch size, and no copy left
\* the output tensor.
C3_OutputHoldsHiddenOfEveryStep ==
    pc = "Done" =>
        /\ \A k \in 0 .. (size_info.batch_size - 1), j \in 0 .. (size_info.time_steps - 1) :
              OutputEntry(k, j) = hidden_after[<<k, j>>]
        /\ output_overrun = 0

\* the elements of the cell state that a cell-state update has written
UpdatedCells ==
    {i \in DOMAIN kernel_content.cell_state :
        IF size_info.time_major
        THEN t > 0 \/ pc \in AfterCellUpdate
        ELSE \/ i \div size_info.state_dimension < b
             \/ /\ i \div size_info.state_dimension = b
                /\ (t > 0 \/ pc \in AfterCellUpdate)}

\* C4: with a cell clip bound K > 0, every cell-state value that a cell-state
\* update has written lies in [-K, K], right after the update and after every
\* later sub-step and step.
C4_ClippedCellStateInBound ==
    LET K == op_data.cell_state_info.quantized_cell_clip
    IN  (pc # "Prepare" /\ K > 0) =>
            \A i \in UpdatedCells :
                /\ 0 - K <= kernel_content.cell_state[i]
                /\ kernel_content.cell_state[i] <= K

\* a cell-state update has just clipped a value to the bound
C4_Witness ==
    LET K == op_data.cell_state_info.quantized_cell_clip
    IN  /\ pc = "OutputGate"
        /\ K > 0
        /\ \E i \in StepSlice(step_info.cell_state_offset) :
              kernel_content.cell_state[i] = K
        /\ \E i \in StepSlice(step_info.cell_state_offset) :
              kernel_content.cell_state[i] = 0 - K

\* the two inter-gate products the cell-state update adds for element i of
\* the cell state, from the gate outputs in the scratch buffers and the cell
\* state before the update
ForgetCellProduct(i) ==
    MulElement(op_data.inter_gate_parameters.forget_cell_mul_params,
               kernel_content.buffer[0][i - step_info.cell_state_offset],
               kernel_content.cell_state[i])

InputCellProduct(i) ==
    MulElement(op_data.inter_gate_parameters.input_mul_params,
               kernel_content.buffer[1][i - step_info.cell_state_offset],
               kernel_content.buffer[2][i - step_info.cell_state_offset])

\* C5 as stated: with a clip bound of 0 the cell-state update stores exactly
\* the sum of the two inter-gate products.
C5_StoresExactSum ==
    [][(pc = "UpdateCell" /\ op_data.cell_state_info.quantized_cell_clip = 0) =>
          \A i \in StepSlice(step_info.cell_state_offset) :
              kernel_content'.cell_state[i] = ForgetCellProduct(i) + InputCellProduct(i)]_vars

\* C5, amended: with a clip bound of 0 the cell-state update never clips:
\* it stores the sum of the two inter-gate products as the int16 addition
\* gives it, saturated to [-32768, 32767], whatever its magnitude, and
\* leaves the rest of the cell state alone.
C5_StoresSaturatedSum ==
    [][(pc = "UpdateCell" /\ op_data.cell_state_info.quantized_cell_clip = 0) =>
          \A i \in DOMAIN kernel_content.cell_state :
              kernel_content'.cell_state[i] =
                  IF i \in StepSlice(step_info.cell_state_offset)
                  THEN Clamp(ForgetCellProduct(i) + InputCellProduct(i), -32768, 32767)
                  ELSE kernel_content.cell_state[i]]_vars

\* a cell-state update with clip bound 0 has stored a value beyond every
\* clip bound of the model
C5_Witness ==
    /\ pc = "OutputGate"
    /\ op_data.cell_state_info.quantized_cell_clip = 0
    /\ \E i \in StepSlice(step_info.cell_state_offset) :
          kernel_content.cell_state[i] > 32000
    /\ \E i \in StepSlice(step_info.cell_state_offset) :
          kernel_content.cell_state[i] < -20000

\* what an evaluation leaves behind
Results(m) ==
    [status |-> m.status,
     output |-> m.kernel_content.output,
     cell_state |-> m.kernel_content.cell_state,
     hidden_state |-> m.kernel_content.hidden_state]

\* C6: for batch_size = 1, the evaluation in time-major order and the
\* evaluation in batch-major order of the same inputs, parameters and initial
\* cell and hidden state end with the same output tensor, cell state and
\* hidden state: an evaluation that has ended in one order left what the
\* evaluation of the same initial tensors in the other order leaves.
C6_TraversalOrdersAgreeForOneBatch ==
    (pc = "Done" /\ size_info.batch_size = 1) =>
        LET other == RunToEnd(Restart(Machine, ~size_info.time_major))
        IN  /\ other.pc = "Done"
            /\ other.op_data.size_info.time_major # size_info.time_major
            /\ Results(other) = Results(Machine)

C6_Witness ==
    /\ pc = "Done"
    /\ size_info.batch_size = 1
    /\ size_info.time_steps = 2
    /\ ~size_info.time_major
    /\ OutputEntry(0, 0) # OutputEntry(0, 1)
    /\ kernel_content.output = RunToEnd(Restart(Machine, TRUE)).kernel_content.output

\* a configuration EvalLstmInteger accepts: the cell gate's activation is
\* sigmoid or tanh
ValidConfiguration ==
    op_data.builtin_data.activation \in {kTfLiteActSigmoid, kTfLiteActTanh}

\* C7: for every valid configuration EvalLstmInteger ends, returning
\* kTfLiteOk, after exactly time_steps invocations of the step in time-major
\* order and batch_size * time_steps invocations in batch-major order; it
\* never invokes more and never returns anything else.
C7_TerminatesOkAfterFixedSteps ==
    /\ ValidConfiguration => <>(pc = "Done")
    /\ [](Running => Step(Machine) # Machine)
    /\ [](steps_invoked <= (IF size_info.time_major THEN size_info.time_steps
                            ELSE size_info.batch_size * size_info.time_steps))
    /\ [](pc = "Done" =>
            /\ status = "kTfLiteOk"
            /\ steps_invoked = (IF size_info.time_major THEN size_info.time_steps
                                ELSE size_info.batch_size * size_info.time_steps))
    /\ [](status \in {"None", "kTfLiteOk"})

C7_Witness ==
    /\ pc = "Done"
    /\ status = "kTfLiteOk"
    /\ ~size_info.time_major
    /\ size_info.batch_size = 2
    /\ size_info.time_steps = 2
    /\ steps_invoked = 4

\* C8: with an activation other than sigmoid and tanh, CalculateLstmGateInteger
\* fails fatally at the cell-candidate gate: the program aborts there, no
\* later sub-step runs, the cell state, hidden state and output tensors stay
\* as they were, and nothing is returned.
C8_UnsupportedActivationAborts ==
    ~ValidConfiguration =>
        /\ pc \in {"Prepare", "Loop", "ForgetGate", "InputGate", "CellGate", "Aborted"}
        /\ IsPrefix(substeps, <<"ForgetGate", "InputGate", "CellGate">>)
        /\ steps_invoked <= 1
        /\ hidden_updates = 0
        /\ status = "None"
        /\ kernel_content.cell_state = initial_content.cell_state
        /\ kernel_content.hidden_state = initial_content.hidden_state
        /\ kernel_content.output = initial_content.output

C8_Witness ==
    /\ pc = "Aborted"
    /\ op_data.cell_gate_nonlinear_type = kTfLiteActRelu
    /\ substeps = <<"ForgetGate", "InputGate", "CellGate">>

\* C9: a cell state scale that is no exact power of two never has its
\* cell_state_scale_power stored and used by a hidden-state update.
C9_NoHiddenUpdateForInexactScale ==
    ~CheckedLog2(op_data.quantization_settings.cell_quantization_parameters.scale).exact
        => (pc \in {"Prepare", "Aborted"} /\ hidden_updates = 0)

\* C10: in batch-major order the driver writes neither the cell state nor the
\* hidden state between batch elements: the copy of the hidden state, the
\* advance of the time and the loop's steps leave both tensors as they are,
\* and the move to the next batch element changes the step position and the
\* loop variables only.
C10_DriverKeepsStateBetweenBatches ==
    [][/\ (~size_info.time_major /\ pc \in DriverPositions) =>
              /\ kernel_content'.cell_state = kernel_content.cell_state
              /\ kernel_content'.hidden_state = kernel_content.hidden_state
       /\ (pc = "Loop" /\ LoopEndsBatch(Machine)) =>
              /\ kernel_content' = kernel_content
              /\ b' = b + 1
              /\ UNCHANGED <<op_data, status, steps_invoked, hidden_updates,
                             hidden_after, output_overrun>>]_vars

\* the driver has moved to the second batch element, whose cell and hidden
\* state are the initial ones and not zero, the first one's being updated
C10_Witness ==
    /\ ~size_info.time_major
    /\ pc = "ForgetGate"
    /\ b = 1
    /\ t = 0
    /\ \E i \in StepSlice(step_info.cell_state_offset) :
          /\ kernel_content.cell_state[i] # 0
          /\ kernel_content.cell_state[i] = initial_content.cell_state[i]
    /\ \E i \in StepSlice(step_info.hidden_state_offset) :
          /\ kernel_content.hidden_state[i] # 0
          /\ kernel_content.hidden_state[i] = initial_content.hidden_state[i]
    /\ kernel_content.cell_state[0] # initial_content.cell_state[0]

\* C11: the step position only advances: no offset and no batch index ever
\* decreases; the time index is the loop's t, grows by one with each
\* UpdateTime and returns to 0 only when the batch-major driver moves to the
\* next batch element, together with the advance of the batch index; in
\* time-major order the batch index stays 0 and the time index never
\* decreases.
C11_StepPositionOnlyAdvances ==
    [][/\ step_info'.input_offset >= step_info.input_offset
       /\ step_info'.output_offset >= step_info.output_offset
       /\ step_info'.hidden_state_offset >= step_info.hidden_state_offset
       /\ step_info'.cell_state_offset >= step_info.cell_state_offset
       /\ step_info'.current_batch >= step_info.current_batch
       /\ step_info'.current_time = t'
       /\ step_info'.current_batch = (IF size_info.time_major THEN 0 ELSE b')
       /\ IF pc = "UpdateTime"
          THEN /\ step_info'.current_time = step_info.current_time + 1
               /\ step_info'.current_batch = step_info.current_batch
          ELSE IF pc = "Loop" /\ LoopEndsBatch(Machine)
          THEN /\ ~size_info.time_major
               /\ step_info'.current_time = 0
               /\ step_info'.current_batch = step_info.current_batch + 1
          ELSE step_info' = step_info
       /\ size_info.time_major =>
              /\ step_info'.current_time >= step_info.current_time
              /\ step_info'.current_batch = 0]_vars

\* the batch-major driver has advanced the time, moved to the second batch
\* element and advanced the time again
C11_Witness ==
    /\ ~size_info.time_major
    /\ size_info.time_steps = 2
    /\ step_info.current_batch = 1
    /\ step_info.current_time = 1
    /\ step_info.input_offset = 3 * size_info.input_dimension
    /\ step_info.output_offset = 3 * size_info.state_dimension
    /\ step_info.cell_state_offset = size_info.state_dimension
    /\ pc = "Loop"

\* the (multiplier, shift) pair of a parameter set
MultiplierAndShift(params) == <<params.output_multiplier, params.output_shift>>

\* the parameters derived from the quantization settings of the operator
DerivedAgain ==
    CreateLSTMOpData(op_data.size_info, op_data.builtin_data,
                     op_data.quantization_settings)

Clip(x, clip_bound) ==
    IF clip_bound > 0 THEN Max(Min(x, clip_bound), 0 - clip_bound) ELSE x

\* C14: the cell-state update stores, for every element of its slice,
\* clip(forget_gate * old_cell + input_gate * cell_candidate, clip_bound): the
\* first product taken with forget_cell_mul_params from the cell value the
\* update found, the second with input_mul_params, the sum being the int16
\* sum of the kernel; the other elements of the cell state stay as they are.
C14_CellUpdateFormula ==
    [][pc = "UpdateCell" =>
          \A i \in DOMAIN kernel_content.cell_state :
              kernel_content'.cell_state[i] =
                  IF i \in StepSlice(step_info.cell_state_offset)
                  THEN Clip(CwiseAddElement(ForgetCellProduct(i), InputCellProduct(i)),
                            op_data.cell_state_info.quantized_cell_clip)
                  ELSE kernel_content.cell_state[i]]_vars

\* the second cell-state update of a run is due: the old cell value is not 0,
\* the two parameter sets differ and give different products, and the sum
\* exceeds the clip bound
C14_Witness ==
    /\ pc = "UpdateCell"
    /\ t = 1
    /\ op_data.cell_state_info.quantized_cell_clip > 0
    /\ MultiplierAndShift(op_data.inter_gate_parameters.forget_cell_mul_params)
          # MultiplierAndShift(op_data.inter_gate_parameters.input_mul_params)
    /\ \E i \in StepSlice(step_info.cell_state_offset) :
          /\ kernel_content.cell_state[i] # 0
          /\ ForgetCellProduct(i) # 0
          /\ InputCellProduct(i) # 0
          /\ ForgetCellProduct(i) #
                MulElement(op_data.inter_gate_parameters.input_mul_params,
                           kernel_content.buffer[0][i - step_info.cell_state_offset],
                           kernel_content.cell_state[i])
          /\ ForgetCellProduct(i) + InputCellProduct(i)
                > op_data.cell_state_info.quantized_cell_clip

\* activation(x) for the two activations of the kernel
Activation(activation, x) ==
    IF activation = kTfLiteActSigmoid THEN Logistic(x) ELSE Tanh(0, x)

\* element i of activation(FC(input, input_weights, input_bias) +
\* FC(hidden_state, recurrent_weights, no bias)) at the step position
GateFormula(gate_params, gate_data, activation, i) ==
    Activation(activation,
        CwiseAddElement(
            FullyConnectedElement(gate_params.input_fc_params, InputShape(size_info),
                                  kernel_content.input, step_info.input_offset,
                                  gate_data.input_weight, gate_data.bias,
                                  StateShape(size_info), i),
            FullyConnectedElement(gate_params.recurrent_fc_params, StateShape(size_info),
                                  kernel_content.hidden_state,
                                  step_info.hidden_state_offset,
                                  gate_data.recurrent_weight, nullptr,
                                  StateShape(size_info), i)))

\* the step position of the step the loops are at
AtCurrentStep ==
    /\ step_info.input_offset =
          (IF size_info.time_major THEN t * size_info.batch_size
           ELSE b * size_info.time_steps + t) * size_info.input_dimension
    /\ step_info.hidden_state_offset =
          (IF size_info.time_major THEN 0 ELSE b * size_info.state_dimension)

\* the gate a position computes: its parameters, weights, activation and
\* output buffer
GateAt(p) ==
    CASE p = "ForgetGate" ->
            [params |-> op_data.forget_gate_parameters, data |-> GateData.forget,
             activation |-> kTfLiteActSigmoid, output |-> forget_gate_output]
      [] p = "InputGate" ->
            [params |-> op_data.input_gate_parameters, data |-> GateData.input,
             activation |-> kTfLiteActSigmoid, output |-> input_gate_output]
      [] p = "CellGate" ->
            [params |-> op_data.cell_gate_parameters, data |-> GateData.cell,
             activation |-> op_data.cell_gate_nonlinear_type,
             output |-> cell_gate_output]
      [] p = "OutputGate" ->
            [params |-> op_data.output_gate_parameters, data |-> GateData.output,
             activation |-> kTfLiteActSigmoid, output |-> output_gate_output]

\* C15: each gate computation leaves in its output buffer
\* activation(FC(input, input_weights, input_bias) + FC(hidden_state,
\* recurrent_weights, recurrent_bias)), taken at the input and hidden-state
\* offsets of the current step, with sigmoid for the forget, input and output
\* gates and the configured cell_gate_nonlinear_type for the cell-candidate
\* gate, and changes neither the input nor the hidden state.
C15_GateFormula ==
    [][(pc \in {"ForgetGate", "InputGate", "CellGate", "OutputGate"}
            /\ pc' # TFLITE_ASSERT_FALSE) =>
          LET g == GateAt(pc)
          IN  /\ AtCurrentStep
              /\ \A i \in 0 .. (FlatSize(StateShape(size_info)) - 1) :
                    kernel_content'.buffer[g.output][i] =
                        GateFormula(g.params, g.data, g.activation, i)
              /\ kernel_content'.input = kernel_content.input
              /\ kernel_content'.hidden_state = kernel_content.hidden_state]_vars

\* in the second step of the second batch element, the three gates before
\* the cell update hold their formulas' values, the cell-candidate gate with
\* tanh, which differs from what sigmoid gives
C15_Witness ==
    /\ pc = "UpdateCell"
    /\ ~size_info.time_major
    /\ b = 1
    /\ t = 1
    /\ op_data.cell_gate_nonlinear_type = kTfLiteActTanh
    /\ \A p \in {"ForgetGate", "InputGate", "CellGate"} :
          \A i \in 0 .. (FlatSize(StateShape(size_info)) - 1) :
              kernel_content.buffer[GateAt(p).output][i] =
                  GateFormula(GateAt(p).params, GateAt(p).data, GateAt(p).activation, i)
    /\ \E i \in 0 .. (FlatSize(StateShape(size_info)) - 1) :
          kernel_content.buffer[cell_gate_output][i] #
              GateFormula(op_data.cell_gate_parameters, GateData.cell,
                          kTfLiteActSigmoid, i)

\* C16: the hidden-state update takes s = (15 + cell_state_scale_power) - 3;
\* for s >= 0 it leaves the cell state alone and applies tanh with left
\* shift s; for s < 0 it first shifts every cell-state value of the step's
\* slice right, arithmetically and in place, by -s bits and applies tanh with
\* shift 0; the hidden state of the slice becomes the saturating product of
\* the tanh result and the output gate, and the rest of both tensors stays.
C16_HiddenUpdateShift ==
    [][pc = "UpdateHidden" =>
          LET n == FlatSize(StateShape(size_info))
              at == step_info.cell_state_offset
              hat == step_info.hidden_state_offset
              s == (15 + op_data.cell_state_info.cell_state_scale_power) - 3
              mul_params == op_data.inter_gate_parameters.output_mul_params
              shifted(i) ==
                  IF s >= 0 THEN kernel_content.cell_state[at + i]
                  ELSE ShiftRight(kernel_content.cell_state[at + i], 0 - s)
              activated(i) == Tanh(IF s >= 0 THEN s ELSE 0, shifted(i))
          IN  /\ \A j \in DOMAIN kernel_content.cell_state :
                    kernel_content'.cell_state[j] =
                        IF j \in at .. (at + n - 1) THEN shifted(j - at)
                        ELSE kernel_content.cell_state[j]
              /\ \A i \in 0 .. (n - 1) :
                    kernel_content'.buffer[tanh_activated_cell_buffer][i] =
                        activated(i)
              /\ \A j \in DOMAIN kernel_content.hidden_state :
                    kernel_content'.hidden_state[j] =
                        IF j \in hat .. (hat + n - 1)
                        THEN MulElement(mul_params, activated(j - hat),
                                 kernel_content.buffer[output_gate_output][j - hat])
                        ELSE kernel_content.hidden_state[j]
              /\ \A j \in DOMAIN kernel_content.hidden_state :
                    /\ kernel_content'.hidden_state[j] >= mul_params.quantized_activation_min
                    /\ kernel_content'.hidden_state[j] <= mul_params.quantized_activation_max]_vars

\* right after a hidden-state update with s = -3: the second step has stored
\* a non-zero hidden state that is the product of the output gate and the
\* tanh, with shift 0, of the negative cell-state value the update left
C16_Witness ==
    /\ pc = AfterSubStep("UpdateHidden")
    /\ t = 1
    /\ (15 + op_data.cell_state_info.cell_state_scale_power) - 3 = 0 - 3
    /\ \E i \in 0 .. (FlatSize(StateShape(size_info)) - 1) :
          /\ kernel_content.cell_state[step_info.cell_state_offset + i] < 0
          /\ kernel_content.buffer[tanh_activated_cell_buffer][i] =
                Tanh(0, kernel_content.cell_state[step_info.cell_state_offset + i])
          /\ kernel_content.hidden_state[step_info.hidden_state_offset + i] # 0
          /\ kernel_content.hidden_state[step_info.hidden_state_offset + i] =
                MulElement(op_data.inter_gate_parameters.output_mul_params,
                           kernel_content.buffer[tanh_activated_cell_buffer][i],
                           kernel_content.buffer[output_gate_output][i])

\* whether every value of a tensor or buffer lies in [lo, hi]
WithinLimits(tensor, lo, hi) ==
    \A i \in DOMAIN tensor : tensor[i] >= lo /\ tensor[i] <= hi

\* the exact sum of the two fully connected results of a gate
GateSum(gate_params, gate_data, i) ==
    FullyConnectedElement(gate_params.input_fc_params, InputShape(size_info),
                          kernel_content.input, step_info.input_offset,
                          gate_data.input_weight, gate_data.bias,
                          StateShape(size_info), i)
    + FullyConnectedElement(gate_params.recurrent_fc_params, StateShape(size_info),
                            kernel_content.hidden_state, step_info.hidden_state_offset,
                            gate_data.recurrent_weight, nullptr,
                            StateShape(size_info), i)

\* the limit an out-of-range sum saturates to
SaturatedTo(limit, clip) ==
    IF clip > 0 THEN Max(Min(limit, clip), 0 - clip) ELSE limit

\* C17: whatever steps have run, every gate output in the scratch buffers and
\* every cell-state value lies in the range of CellType, and every
\* hidden-state and output value in the range of ActivationType (both 16-bit
\* signed here); a sum beyond the range saturates and never wraps: a gate
\* whose two fully connected results add up beyond a limit gets the
\* activation of that limit, and a cell-state update whose two products add
\* up beyond a limit stores that limit (or the clip bound below it).
C17_ValuesSaturate ==
    [][/\ \A k \in DOMAIN kernel_content'.buffer :
             WithinLimits(kernel_content'.buffer[k], CellTypeMin, CellTypeMax)
       /\ WithinLimits(kernel_content'.cell_state, CellTypeMin, CellTypeMax)
       /\ WithinLimits(kernel_content'.hidden_state, CellTypeMin, CellTypeMax)
       /\ WithinLimits(kernel_content'.output, CellTypeMin, CellTypeMax)
       /\ (pc \in {"ForgetGate", "InputGate", "CellGate", "OutputGate"}
              /\ pc' # TFLITE_ASSERT_FALSE) =>
             LET g == GateAt(pc)
             IN  \A i \in 0 .. (FlatSize(StateShape(size_info)) - 1) :
                    LET sum == GateSum(g.params, g.data, i)
                    IN  /\ sum > CellTypeMax =>
                              kernel_content'.buffer[g.output][i] =
                                  Activation(g.activation, CellTypeMax)
                        /\ sum < CellTypeMin =>
                              kernel_content'.buffer[g.output][i] =
                                  Activation(g.activation, CellTypeMin)
       /\ pc = "UpdateCell" =>
             \A i \in StepSlice(step_info.cell_state_offset) :
                LET sum == ForgetCellProduct(i) + InputCellProduct(i)
                    clip == op_data.cell_state_info.quantized_cell_clip
                IN  /\ sum > CellTypeMax =>
                          kernel_content'.cell_state[i] = SaturatedTo(CellTypeMax, clip)
                    /\ sum < CellTypeMin =>
                          kernel_content'.cell_state[i] = SaturatedTo(CellTypeMin, clip)]_vars

\* right after a cell-state update without clipping whose products added up
\* beyond a limit: an element that did not start at a limit now holds a
\* limit, while the cell gate's fully connected results added up
\* beyond a limit and its output is the activation of that limit
C17_Witness ==
    /\ pc = "OutputGate"
    /\ op_data.cell_state_info.quantized_cell_clip = 0
    /\ \E i \in StepSlice(step_info.cell_state_offset) :
          /\ kernel_content.cell_state[i] \in {CellTypeMin, CellTypeMax}
          /\ initial_content.cell_state[i] \notin {CellTypeMin, CellTypeMax}
    /\ \E i \in 0 .. (FlatSize(StateShape(size_info)) - 1) :
          LET sum == GateSum(op_data.cell_gate_parameters, GateData.cell, i)
          IN  \/ /\ sum > CellTypeMax
                 /\ kernel_content.buffer[cell_gate_output][i] =
                        Activation(op_data.cell_gate_nonlinear_type, CellTypeMax)
              \/ /\ sum < CellTypeMin
                 /\ kernel_content.buffer[cell_gate_output][i] =
                        Activation(op_data.cell_gate_nonlinear_type, CellTypeMin)

\* the fully connected parameter sets of the four gates, each with the
\* quantization parameters of the tensor it takes its input from
FCParamSets ==
    UNION {{<<g.input_fc_params,
              op_data.quantization_settings.input_quantization_parameters>>,
            <<g.recurrent_fc_params,
              op_data.quantization_settings.hidden_quantization_parameters>>} :
           g \in {op_data.forget_gate_parameters, op_data.input_gate_parameters,
                  op_data.cell_gate_parameters, op_data.output_gate_parameters}}

\* the three inter-gate multiplication parameter sets
InterGateMulParamSets ==
    {op_data.inter_gate_parameters.forget_cell_mul_params,
     op_data.inter_gate_parameters.input_mul_params,
     op_data.inter_gate_parameters.output_mul_params}

\* C18: in every state of a run, every fully connected parameter set has
\* filter zero point 0 (weights offset 0), output zero point 0 (output
\* offset 0), the zero point of the tensor it reads, the input for the input
\* parameters and the hidden state for the recurrent ones (input offset =
\* minus that zero point), and the limits of the cell type as saturation
\* bounds; every inter-gate multiplication parameter set has both input
\* offsets 0 and the limits of its output type as saturation bounds.
C18_ParameterInvariants ==
    /\ \A fc \in FCParamSets :
          /\ fc[1].weights_offset = 0
          /\ fc[1].output_offset = 0
          /\ fc[1].input_offset = 0 - fc[2].zero_point
          /\ fc[1].quantized_activation_min = CellTypeMin
          /\ fc[1].quantized_activation_max = CellTypeMax
    /\ \A mul \in InterGateMulParamSets :
          /\ mul.input1_offset = 0
          /\ mul.input2_offset = 0
          /\ mul.quantized_activation_min = CellTypeMin
          /\ mul.quantized_activation_max = CellTypeMax

\* an evaluation that has invoked steps with an input of zero point 3 and a
\* hidden state of zero point -2: the forget gate's parameters carry both
C18_Witness ==
    /\ pc = "Done"
    /\ steps_invoked > 0
    /\ op_data.quantization_settings.input_quantization_parameters.zero_point = 3
    /\ op_data.quantization_settings.hidden_quantization_parameters.zero_point = 0 - 2
    /\ op_data.forget_gate_parameters.input_fc_params.input_offset = 0 - 3
    /\ op_data.forget_gate_parameters.recurrent_fc_params.input_offset = 2
    /\ op_data.inter_gate_parameters.output_mul_params.output_offset = 0 - 2

\* the number of elements one copy of the hidden state to the output moves
ElementsCopied == size_info.batch_size * size_info.state_dimension

\* C19: every copy of the hidden state to the output writes inside the
\* output tensor (output offset + elements copied <= batch_size * time_steps
\* * state_dimension) and reads inside the hidden-state tensor, in both
\* traversal orders and for every batch_size >= 1.
C19_CopyStaysInsideTensors ==
    pc = "RecordOutput" =>
        /\ step_info.output_offset >= 0
        /\ step_info.output_offset + ElementsCopied
              <= size_info.batch_size * size_info.time_steps * size_info.state_dimension
        /\ \A i \in 0 .. (ElementsCopied - 1) : i \in DOMAIN kernel_content.hidden_state

\* C20: the cell state is carried unchanged from one step to the next, for
\* every cell_state_scale_power: only the cell-state update writes the
\* cell-state tensor, so that the next step reads exactly what this step's
\* cell-state update stored; in particular the hidden-state update does not
\* modify the cell-state tensor.
C20_CellStateCarriedUnchanged ==
    [][pc # "UpdateCell" => kernel_content'.cell_state = kernel_content.cell_state]_vars

\* what the four scratch buffers may hold when a step or a run starts
ScratchContents == ScratchPatterns \cup {<<-32768, 32767, 1>>}

\* the machine with its four scratch buffers filled from a pattern
WithScratch(m, scratch_pattern) ==
    [m EXCEPT !.kernel_content.buffer =
        [k \in DOMAIN m.kernel_content.buffer |->
            Fill(scratch_pattern,
                 m.op_data.size_info.batch_size * m.op_data.size_info.state_dimension)]]

RECURSIVE Advance(_, _)
\* the machine k statements later
Advance(m, k) == IF k = 0 THEN m ELSE Advance(Step(m), k - 1)

\* a step entered at its first gate: the six sub-steps of LstmStepInteger and
\* the copy of the hidden state to the output
StepAndCopy(m) == Advance(m, Len(LstmStepSequence) + 1)

\* the tensors a step or an evaluation produces
Tensors(m) ==
    [cell_state |-> m.kernel_content.cell_state,
     hidden_state |-> m.kernel_content.hidden_state,
     output |-> m.kernel_content.output]

\* C21: the cell state, hidden state and output a step produces, and those a
\* whole evaluation produces, do not depend on what the four scratch buffers
\* held at the start: the step entered with any other scratch contents, and
\* the evaluation started over with any other scratch contents, end at the
\* same position with the same three tensors (and the same return value).
C21_ScratchContentsDoNotMatter ==
    /\ pc = "ForgetGate" =>
          \A sp \in ScratchContents :
              LET this == StepAndCopy(Machine)
                  other == StepAndCopy(WithScratch(Machine, sp))
              IN  /\ other.pc = this.pc
                  /\ Tensors(other) = Tensors(this)
    /\ pc = "Done" =>
          \A sp \in ScratchContents :
              LET other == RunToEnd(WithScratch(Restart(Machine, size_info.time_major), sp))
              IN  /\ other.pc = "Done"
                  /\ Results(other) = Results(Machine)

\* a batch-major evaluation of two time steps that started with non-zero
\* scratch buffers has ended with a non-zero output, the scratch buffers
\* hold other values than at the start, and the evaluation started with
\* zeroed scratch buffers ends with the same tensors
C21_Witness ==
    /\ pc = "Done"
    /\ size_info.time_steps = 2
    /\ \A k \in DOMAIN initial_content.buffer :
          \A i \in DOMAIN initial_content.buffer[k] : initial_content.buffer[k][i] # 0
    /\ \E k \in DOMAIN kernel_content.buffer :
          kernel_content.buffer[k] # initial_content.buffer[k]
    /\ \E i \in DOMAIN kernel_content.output : kernel_content.output[i] # 0
    /\ Tensors(RunToEnd(WithScratch(Restart(Machine, size_info.time_major), <<0>>)))
          = Tensors(Machine)

\* the positions of a step before its hidden-state update has run
BeforeHiddenUpdate ==
    {"ForgetGate", "InputGate", "CellGate", "UpdateCell", "OutputGate", "UpdateHidden"}

\* the hidden state of batch element k as it was when the current step
\* began: what the run started with at the first time step, and what the
\* hidden-state update of the previous time step left after that
HiddenAtStepEntry(k) ==
    IF t = 0 THEN HiddenOf(initial_content.hidden_state, size_info, k)
    ELSE hidden_after[<<k, t - 1>>]

\* C22: within a step only the last sub-step, the hidden-state update,
\* writes the hidden-state tensor: entering the step, the three first gates,
\* the cell-state update and the output gate leave it unchanged, so that at
\* every position of the step before the hidden-state update the batch
\* elements of the step hold the hidden state the step began with, and the
\* output gate, computed after the cell-state update, is computed from it.
C22_HiddenWrittenOnlyByLastSubStep ==
    [][/\ (pc \in BeforeHiddenUpdate \ {"UpdateHidden"} \/ (pc = "Loop" /\ LoopInvokesStep(Machine))) =>
             kernel_content'.hidden_state = kernel_content.hidden_state
       /\ pc \in BeforeHiddenUpdate =>
             \A k \in StepBatches(Machine) :
                 HiddenOf(kernel_content.hidden_state, size_info, k) = HiddenAtStepEntry(k)
       /\ (pc = "OutputGate" /\ pc' # TFLITE_ASSERT_FALSE) =>
             \A i \in 0 .. (FlatSize(StateShape(size_info)) - 1) :
                 kernel_content'.buffer[output_gate_output][i] =
                     Logistic(CwiseAddElement(
                         FullyConnectedElement(
                             op_data.output_gate_parameters.input_fc_params,
                             InputShape(size_info), kernel_content.input,
                             step_info.input_offset, GateData.output.input_weight,
                             GateData.output.bias, StateShape(size_info), i),
                         FullyConnectedElement(
                             op_data.output_gate_parameters.recurrent_fc_params,
                             StateShape(size_info),
                             [j \in DOMAIN kernel_content.hidden_state |->
                                 HiddenAtStepEntry(j \div size_info.state_dimension)[(j % size_info.state_dimension) + 1]],
                             step_info.hidden_state_offset,
                             GateData.output.recurrent_weight, nullptr,
                             StateShape(size_info), i)))
       /\ pc = "UpdateHidden" =>
             \A j \in DOMAIN kernel_content.hidden_state :
                 j \notin StepSlice(step_info.hidden_state_offset) =>
                     kernel_content'.hidden_state[j] = kernel_content.hidden_state[j]]_vars

\* the second time step is about to update the hidden state: its gates,
\* its cell-state update and its output gate have run, the cell state is no
\* longer the initial one, and the hidden state is still the non-zero one
\* the first step's update left, which differs from the initial one
C22_Witness ==
    /\ pc = "UpdateHidden"
    /\ t = 1
    /\ kernel_content.cell_state # initial_content.cell_state
    /\ \A k \in StepBatches(Machine) :
          /\ HiddenOf(kernel_content.hidden_state, size_info, k) = hidden_after[<<k, 0>>]
          /\ HiddenOf(kernel_content.hidden_state, size_info, k)
                # HiddenOf(initial_content.hidden_state, size_info, k)
          /\ \E d \in 1 .. size_info.state_dimension :
                HiddenOf(kernel_content.hidden_state, size_info, k)[d] # 0

====
